---- MODULE Spec2Model ----
(***************************************************************************)
(* Model of examples/user_routes.py: the three route handlers of the       *)
(* /users resource (create_user, get_user, list_users) over one database   *)
(* table of User rows.                                                     *)
(*                                                                         *)
(* create_user is modelled statement by statement (construct, add, commit, *)
(* refresh, return) so that several requests, each with its own session,   *)
(* can interleave.  get_user and list_users issue a single query and are   *)
(* one step each.                                                          *)
(*                                                                         *)
(* get_db, get_current_user and the mapped User class are declared in the  *)
(* file with empty bodies; their behaviour is taken from the               *)
(* specification: the session inserts pending objects on commit, the       *)
(* database assigns each inserted row an identifier no other row has, and  *)
(* the authentication dependency lets a request through only when the      *)
(* caller is authenticated.                                                *)
(***************************************************************************)
EXTENDS Naturals, FiniteSets, TLC

VARIABLES
    table,      \* the committed rows of the users table
    pc,         \* per create_user request: the statement it is at
    req,        \* per create_user request: the caller's auth and payload
    obj,        \* per create_user request: db_user, the object of its session
    resp,       \* per create_user request: the HTTP response it was given
    writes,     \* per create_user request: rows it has written in this call
    rd,         \* the get_user / list_users exchange being answered, if any
    created     \* every record a create_user call has returned with 201

vars == <<table, pc, req, obj, resp, writes, rd, created>>

----------------------------------------------------------------------------
(* Bounds *)

\* number of identifiers the database can hand out, hence of rows
MaxUsers == 2

\* the concurrently served create_user requests
Reqs == {"w1", "w2"}

Names == {"ann", "bob"}
Emails == {"a@x.org", "b@x.org"}

----------------------------------------------------------------------------
(* Data model *)

\* an attribute that has no value (Python None; an id not yet assigned)
Unset == ""

\* the identifiers the database assigns: non-empty strings
Ids == {ToString(i) : i \in 1..MaxUsers}

\* the user_id path parameter: a non-empty string, an identifier the
\* database assigns or one it never does
UserIds == Ids \cup {"nobody"}

\* class UserCreate: the request payload, both fields required
UserCreate == [name : Names, email : Emails]

\* request bodies a caller may send: valid ones and ones lacking a field
Payloads == UserCreate \cup {[name |-> "ann"]}

\* pydantic's validation of the body against UserCreate
Validate(payload) == DOMAIN payload = {"name", "email"}

\* class User: a row of the table
User == [id : Ids, name : Names, email : Emails]

\* class UserResponse, built from a User by response_model: the three
\* declared fields are copied, anything else the object carries is dropped
UserResponse(u) == [id |-> u.id, name |-> u.name, email |-> u.email]

HTTP_201_CREATED == 201
HTTP_404_NOT_FOUND == 404

\* A response: the status, the records of the body (one record for a single
\* UserResponse, all of them for a list, none for an error) and the detail.
Response(status, body, detail) ==
    [status |-> status, body |-> body, detail |-> detail]

NoResponse == Response(0, {}, "")

NoRequest == [auth |-> FALSE, payload |-> [name |-> Unset]]

NoObject == [id |-> Unset, name |-> Unset, email |-> Unset, state |-> "none"]

NoRead == [op |-> "none", auth |-> FALSE, user_id |-> Unset,
           status |-> 0, body |-> {}, detail |-> ""]

----------------------------------------------------------------------------
(* The injected collaborators *)

\* create_user declared without Depends(get_current_user)
DependenciesCreateOpen(op) ==
    CASE op = "create_user" -> {"get_db"}
      [] op = "get_user"    -> {"get_db"}
      [] op = "list_users"  -> {"get_db", "get_current_user"}

\* get_user declared with Depends(get_current_user), like the other routes
DependenciesGetGuarded(op) ==
    CASE op = "create_user" -> {"get_db", "get_current_user"}
      [] op = "get_user"    -> {"get_db", "get_current_user"}
      [] op = "list_users"  -> {"get_db", "get_current_user"}

\* Depends(...) parameters of each route
Dependencies(op) ==
    CASE op = "create_user" -> {"get_db", "get_current_user"}
      [] op = "get_user"    -> {"get_db"}
      [] op = "list_users"  -> {"get_db", "get_current_user"}

\* get_current_user: succeeds exactly for an authenticated caller
GetCurrentUser(auth) == auth

\* the framework resolves a route's dependencies before calling the handler;
\* a failing dependency answers the request and the handler does not run
Rejected(op, auth) ==
    "get_current_user" \in Dependencies(op) /\ ~GetCurrentUser(auth)

Unauthorized == Response(401, {}, "Not authenticated")
Unprocessable == Response(422, {}, "Field required")

\* the database's identifier generation: any identifier no row has
FreshIds(tbl) == Ids \ {r.id : r \in tbl}

----------------------------------------------------------------------------
(* create_user *)

\* the two keyword arguments exchanged: User(name=user.email, email=user.name)
NewUserSwapped(payload) ==
    [id |-> Unset, name |-> payload.email, email |-> payload.name,
     state |-> "transient"]

\* db_user = User(name=user.name, email=user.email)
NewUser(payload) ==
    [id |-> Unset, name |-> payload.name, email |-> payload.email,
     state |-> "transient"]

\* requests that hold or are about to hold a row of their own
InFlight == {q \in Reqs : pc[q] \in {"add", "commit"}}

\* POST /users/ arrives: dependencies, body validation, then line 33
CreateUserCall(p, auth, payload) ==
    /\ rd = NoRead
    /\ pc[p] \in {"idle", "done"}
    /\ req' = [req EXCEPT ![p] = [auth |-> auth, payload |-> payload]]
    /\ writes' = [writes EXCEPT ![p] = 0]
    /\ IF Rejected("create_user", auth)
       THEN /\ pc' = [pc EXCEPT ![p] = "done"]
            /\ resp' = [resp EXCEPT ![p] = Unauthorized]
            /\ obj' = [obj EXCEPT ![p] = NoObject]
       ELSE IF ~Validate(payload)
       THEN /\ pc' = [pc EXCEPT ![p] = "done"]
            /\ resp' = [resp EXCEPT ![p] = Unprocessable]
            /\ obj' = [obj EXCEPT ![p] = NoObject]
       ELSE /\ Cardinality(table) + Cardinality(InFlight) < MaxUsers
            /\ pc' = [pc EXCEPT ![p] = "add"]
            /\ resp' = [resp EXCEPT ![p] = NoResponse]
            /\ obj' = [obj EXCEPT ![p] = NewUser(payload)]
    /\ UNCHANGED <<table, rd, created>>

\* db.add(db_user) left out: the object stays transient
CreateUserAddMissing(p) ==
    /\ rd = NoRead
    /\ pc[p] = "add"
    /\ pc' = [pc EXCEPT ![p] = "commit"]
    /\ UNCHANGED <<table, req, obj, resp, writes, rd, created>>

\* db.add(db_user): the object becomes pending in the request's session
CreateUserAdd(p) ==
    /\ rd = NoRead
    /\ pc[p] = "add"
    /\ obj' = [obj EXCEPT ![p].state = "pending"]
    /\ pc' = [pc EXCEPT ![p] = "commit"]
    /\ UNCHANGED <<table, req, resp, writes, rd, created>>

\* the row the flush of a pending object inserts, given the generated id
InsertedRow(o, id) == [id |-> id, name |-> o.name, email |-> o.email]

\* an INSERT under a unique constraint on email: a second row with an
\* email already present is not stored
InsertUniqueEmail(tbl, row) ==
    IF \E r \in tbl : r.email = row.email THEN tbl ELSE tbl \cup {row}

\* a merge keyed on the name instead of an INSERT: a row of that name is
\* replaced
InsertMergeByName(tbl, row) == {r \in tbl : r.name # row.name} \cup {row}

\* the table after the INSERT
Insert(tbl, row) == tbl \cup {row}

\* db.commit(): the session's pending object is inserted with a generated
\* id and the transaction is committed; the object's attributes expire
CreateUserCommit(p) ==
    /\ rd = NoRead
    /\ pc[p] = "commit"
    /\ IF obj[p].state = "pending"
       THEN \E id \in FreshIds(table) :
              /\ table' = Insert(table, InsertedRow(obj[p], id))
              /\ obj' = [obj EXCEPT ![p] = [id |-> id, name |-> Unset,
                                           email |-> Unset,
                                           state |-> "expired"]]
              /\ writes' = [writes EXCEPT ![p] = @ + 1]
       ELSE UNCHANGED <<table, obj, writes>>
    /\ pc' = [pc EXCEPT ![p] = "refresh"]
    /\ UNCHANGED <<req, resp, rd, created>>

\* the rows a query filtered on User.id == user_id matches
RowsById(tbl, user_id) == {r \in tbl : r.id = user_id}

\* db.refresh(db_user): the attributes are loaded again from the object's
\* row; an object that is not persistent cannot be refreshed
CreateUserRefresh(p) ==
    /\ rd = NoRead
    /\ pc[p] = "refresh"
    /\ IF obj[p].state = "expired" /\ RowsById(table, obj[p].id) # {}
       THEN /\ \E r \in RowsById(table, obj[p].id) :
                 obj' = [obj EXCEPT ![p] = [id |-> r.id, name |-> r.name,
                                            email |-> r.email,
                                            state |-> "persistent"]]
            /\ pc' = [pc EXCEPT ![p] = "return"]
            /\ UNCHANGED <<resp>>
       ELSE /\ resp' = [resp EXCEPT ![p] =
                          Response(500, {}, "Internal Server Error")]
            /\ pc' = [pc EXCEPT ![p] = "done"]
            /\ UNCHANGED <<obj>>
    /\ UNCHANGED <<table, req, writes, rd, created>>

\* return db_user, serialised through response_model with status_code=201
CreateUserReturn(p) ==
    /\ rd = NoRead
    /\ pc[p] = "return"
    /\ resp' = [resp EXCEPT ![p] =
                  Response(HTTP_201_CREATED, {UserResponse(obj[p])}, "")]
    /\ created' = created \cup {UserResponse(obj[p])}
    /\ pc' = [pc EXCEPT ![p] = "done"]
    /\ UNCHANGED <<table, req, obj, writes, rd>>

----------------------------------------------------------------------------
(* get_user *)

\* the filter on User.id left out: .first() of the whole table
GetUserResponsesNoFilter(tbl, auth, user_id) ==
    IF Rejected("get_user", auth) THEN {Unauthorized}
    ELSE IF tbl = {}
    THEN {Response(HTTP_404_NOT_FOUND, {}, "User not found")}
    ELSE {Response(200, {UserResponse(r)}, "") : r \in tbl}

\* the `if not user` check left out: None is returned and fails to serialise
GetUserResponsesNoCheck(tbl, auth, user_id) ==
    IF Rejected("get_user", auth) THEN {Unauthorized}
    ELSE IF RowsById(tbl, user_id) = {}
    THEN {Response(500, {}, "Internal Server Error")}
    ELSE {Response(200, {UserResponse(r)}, "") : r \in RowsById(tbl, user_id)}

\* the responses GET /users/{user_id} can give: .first() takes one of the
\* matching rows, and no row raises HTTPException(404, "User not found")
GetUserResponses(tbl, auth, user_id) ==
    IF Rejected("get_user", auth) THEN {Unauthorized}
    ELSE IF RowsById(tbl, user_id) = {}
    THEN {Response(HTTP_404_NOT_FOUND, {}, "User not found")}
    ELSE {Response(200, {UserResponse(r)}, "") : r \in RowsById(tbl, user_id)}

GetUser(auth, user_id) ==
    /\ rd = NoRead
    /\ \E r \in GetUserResponses(table, auth, user_id) :
         rd' = [op |-> "get_user", auth |-> auth, user_id |-> user_id,
                status |-> r.status, body |-> r.body, detail |-> r.detail]
    /\ UNCHANGED <<table, pc, req, obj, resp, writes, created>>

----------------------------------------------------------------------------
(* list_users *)

\* a paginated query, .limit(1).all(): at most one row
ListUsersResponseLimited(tbl, auth) ==
    IF Rejected("list_users", auth) THEN Unauthorized
    ELSE Response(200, IF tbl = {} THEN {}
                       ELSE {UserResponse(CHOOSE r \in tbl : TRUE)}, "")

\* a query that also sees the objects other sessions have not committed yet
ListUsersResponseDirty(tbl, auth) ==
    IF Rejected("list_users", auth) THEN Unauthorized
    ELSE Response(200, {UserResponse(r) : r \in tbl} \cup
                       {UserResponse(obj[q]) :
                          q \in {x \in Reqs : obj[x].state = "pending"}}, "")

\* the response of GET /users/: db.query(User).all()
ListUsersResponse(tbl, auth) ==
    IF Rejected("list_users", auth) THEN Unauthorized
    ELSE Response(200, {UserResponse(r) : r \in tbl}, "")

ListUsers(auth) ==
    /\ rd = NoRead
    /\ LET r == ListUsersResponse(table, auth) IN
         rd' = [op |-> "list_users", auth |-> auth, user_id |-> Unset,
                status |-> r.status, body |-> r.body, detail |-> r.detail]
    /\ UNCHANGED <<table, pc, req, obj, resp, writes, created>>

\* return user / return db.query(User).all(): the response leaves the
\* handler; a read is a single query, so nothing runs between the two
ReadReturn ==
    /\ rd # NoRead
    /\ rd' = NoRead
    /\ UNCHANGED <<table, pc, req, obj, resp, writes, created>>

----------------------------------------------------------------------------
(* The system *)

Init ==
    /\ table = {}
    /\ pc = [p \in Reqs |-> "idle"]
    /\ req = [p \in Reqs |-> NoRequest]
    /\ obj = [p \in Reqs |-> NoObject]
    /\ resp = [p \in Reqs |-> NoResponse]
    /\ writes = [p \in Reqs |-> 0]
    /\ rd = NoRead
    /\ created = {}

Next ==
    \/ \E p \in Reqs, auth \in BOOLEAN, payload \in Payloads :
         CreateUserCall(p, auth, payload)
    \/ \E p \in Reqs : CreateUserAdd(p)
    \/ \E p \in Reqs : CreateUserCommit(p)
    \/ \E p \in Reqs : CreateUserRefresh(p)
    \/ \E p \in Reqs : CreateUserReturn(p)
    \/ \E auth \in BOOLEAN, user_id \in UserIds : GetUser(auth, user_id)
    \/ \E auth \in BOOLEAN : ListUsers(auth)
    \/ ReadReturn

Spec == Init /\ [][Next]_vars

----------------------------------------------------------------------------
(* Properties *)

\* the table as the responses show it
TableResponses == {UserResponse(r) : r \in table}

\* request p was answered after passing authentication and validation
Accepted(p) ==
    pc[p] = "done" /\ req[p].auth /\ Validate(req[p].payload)

\* the response of the read being answered
ReadResponse == Response(rd.status, rd.body, rd.detail)

\* C1: every valid payload sent by an authenticated caller is answered with
\* 201 and one record carrying the payload's name and email and a non-empty
\* id, whatever the table holds.
C1_CreateReturnsPayload ==
    \A p \in Reqs :
      Accepted(p) =>
        /\ resp[p].status = 201
        /\ Cardinality(resp[p].body) = 1
        /\ \A r \in resp[p].body :
             /\ r.name = req[p].payload.name
             /\ r.email = req[p].payload.email
             /\ r.id # ""

C1_Witness ==
    \E p \in Reqs :
      /\ Accepted(p)
      /\ resp[p].status = 201
      /\ Cardinality(table) = 2
      /\ \E r \in table : r.name # req[p].payload.name

\* C2: a get_user call for the id of a record that create_user returned is
\* answered with 200 and exactly that record, whatever calls came between.
C2_GetAfterCreate ==
    rd.op = "get_user" =>
      \A r \in created :
        r.id = rd.user_id => rd.status = 200 /\ rd.body = {r}

C2_Witness ==
    /\ rd.op = "get_user"
    /\ \E r \in created : r.id = rd.user_id
    /\ Cardinality(created) = 2
    /\ \E p \in Reqs : pc[p] = "done" /\ resp[p].status = 401

\* C3: a get_user call for an id that no row of the table has is answered
\* with 404 and detail "User not found", carries no record, and leaves the
\* table unchanged.
C3_GetMissing ==
    [][(rd.op = "none" /\ rd'.op = "get_user"
          /\ rd'.user_id \notin {r.id : r \in table})
        => /\ rd'.status = 404
           /\ rd'.detail = "User not found"
           /\ rd'.body = {}
           /\ table' = table]_vars

C3_Witness ==
    /\ rd.op = "get_user"
    /\ rd.status = 404
    /\ rd.user_id \in Ids
    /\ table # {}

\* C4: every record a create_user call has returned is in the table, and is
\* in the body of every list_users response to an authenticated caller.
C4_ListHasCreated ==
    /\ created \subseteq TableResponses
    /\ (rd.op = "list_users" /\ rd.auth) => created \subseteq rd.body

C4_Witness ==
    /\ rd.op = "list_users"
    /\ rd.auth
    /\ Cardinality(created) = 2
    /\ created \subseteq rd.body

\* C5: a create_user call by an unauthenticated caller never reaches the
\* handler: it writes no row and its response carries no record; a
\* list_users call by an unauthenticated caller returns no rows.
C5_AuthRequired ==
    /\ \A p \in Reqs :
         ~req[p].auth =>
           /\ pc[p] \in {"idle", "done"}
           /\ writes[p] = 0
           /\ resp[p].body = {}
           /\ resp[p].status # 201
    /\ (rd.op = "list_users" /\ ~rd.auth) =>
         rd.body = {} /\ rd.status # 200

C5_Witness ==
    /\ \E p \in Reqs :
         pc[p] = "done" /\ ~req[p].auth /\ Validate(req[p].payload)
    /\ rd.op = "list_users"
    /\ ~rd.auth
    /\ table # {}

\* C6: a commit whose object has the name or the email of a row already in
\* the table still inserts a further row with that name and email, and the
\* request goes on to its refresh.
C6_NoUniqueness ==
    [][\A p \in Reqs :
         (/\ pc[p] = "commit"
          /\ pc'[p] # "commit"
          /\ \E r \in table : r.name = obj[p].name \/ r.email = obj[p].email)
         => /\ pc'[p] = "refresh"
            /\ Cardinality(table') = Cardinality(table) + 1
            /\ \E row \in table' \ table :
                 row.name = obj[p].name /\ row.email = obj[p].email]_vars

C6_Witness ==
    /\ \E r1, r2 \in table :
         r1.id # r2.id /\ r1.name = r2.name /\ r1.email = r2.email
    /\ Cardinality(created) = 2
    /\ \A p \in Reqs : pc[p] = "done" /\ resp[p].status = 201

\* C7: the table changes only in the commit of a create_user request, and
\* then by exactly one new row, the one the request returns, with every
\* earlier row kept; a request answered with 201 has written exactly once;
\* no get_user or list_users step changes the table.
C7_OneWrite ==
    /\ [][/\ table' # table =>
               \E p \in Reqs :
                 /\ pc[p] = "commit" /\ pc'[p] = "refresh"
                 /\ writes'[p] = writes[p] + 1
                 /\ \E row \in table' :
                      /\ row \notin table
                      /\ table' = table \cup {row}
                      /\ row.id = obj'[p].id
                      /\ row.name = obj[p].name
                      /\ row.email = obj[p].email
          /\ rd' # rd => table' = table]_vars
    /\ [](\A p \in Reqs :
            (pc[p] = "done" /\ resp[p].status = 201) =>
               /\ writes[p] = 1
               /\ resp[p].body \subseteq TableResponses)

C7_Witness ==
    /\ Cardinality(table) = 2
    /\ \A p \in Reqs :
         pc[p] = "done" /\ resp[p].status = 201 /\ writes[p] = 1

\* C8: the body of a list_users response to an authenticated caller is
\* exactly the rows of the table, and its status is 200.
C8_ListIsTable ==
    (rd.op = "list_users" /\ rd.auth) =>
      rd.status = 200 /\ rd.body = TableResponses

C8_Witness ==
    /\ rd.op = "list_users"
    /\ rd.auth
    /\ rd.body # {}
    /\ \E p \in Reqs : pc[p] = "commit" /\ obj[p].state = "pending"

\* C9: under every interleaving of the requests' steps no two rows share an
\* id, every request past its commit has a row of its own in the table, and
\* the records returned have pairwise distinct ids.
C9_OwnRows ==
    /\ \A r1, r2 \in table : r1.id = r2.id => r1 = r2
    /\ \A p \in Reqs :
         pc[p] \in {"refresh", "return"} =>
           \E r \in table :
             r.id = obj[p].id /\ r.name = req[p].payload.name
                              /\ r.email = req[p].payload.email
    /\ \A p, q \in Reqs :
         (p # q /\ pc[p] \in {"refresh", "return"}
                /\ pc[q] \in {"refresh", "return"}) => obj[p].id # obj[q].id
    /\ \A p \in Reqs :
         Accepted(p) => resp[p].status = 201
                        /\ resp[p].body \subseteq TableResponses
    /\ \A p, q \in Reqs :
         (p # q /\ Accepted(p) /\ Accepted(q)) => resp[p].body # resp[q].body
    /\ \A r1, r2 \in created : r1.id = r2.id => r1 = r2

C9_Witness ==
    /\ \A p \in Reqs : pc[p] = "refresh"
    /\ Cardinality(table) = 2

\* C10: the response get_user gives does not depend on the caller being
\* authenticated: the response given is one the other kind of caller gets
\* for the same id, and the possible responses are the same for both; an
\* unauthenticated list_users call is not answered as an authenticated one.
C10_GetIgnoresAuth ==
    /\ \A user_id \in UserIds :
         GetUserResponses(table, TRUE, user_id)
           = GetUserResponses(table, FALSE, user_id)
    /\ rd.op = "get_user" =>
         ReadResponse \in GetUserResponses(table, ~rd.auth, rd.user_id)
    /\ (rd.op = "list_users" /\ ~rd.auth) =>
         ReadResponse # ListUsersResponse(table, TRUE)

C10_Witness ==
    /\ rd.op = "get_user"
    /\ ~rd.auth
    /\ rd.status = 200
    /\ \E p \in Reqs : pc[p] = "done" /\ resp[p].status = 401

====
